---------------------------- MODULE Spec2Model ----------------------------
(***************************************************************************)
(* A model of the ai_hair_stylist package: preference normalisation        *)
(* (preferences.py), the hairstyle catalog (catalog.py) and the scoring    *)
(* and ranking engine (recommendation.py).                                 *)
(*                                                                         *)
(* Python values are modelled as follows.                                  *)
(*   - str: a TLA+ string.  strip(), lower(), startswith(), join() and the *)
(*     code-point order used by sorted() are computed character by         *)
(*     character.                                                          *)
(*   - None, and the dynamically typed values of a payload mapping:        *)
(*     records tagged with the Python type name.                           *)
(*   - frozenset: a TLA+ set; list and tuple: a sequence.                  *)
(*   - float scores and weights: integers counting hundredths (3.0 is 300, *)
(*     0.8 is 80).  Every weight used is a multiple of 0.02, so half a     *)
(*     weight is exact; binary rounding of floats is not modelled.         *)
(*   - a raised exception: the exception's type name in `raised`.          *)
(***************************************************************************)
EXTENDS Integers, Sequences, FiniteSets, TLC

VARIABLES
    op,               \* the call made last
    payload,          \* the keyword arguments / mapping given to ClientPreferences
    prefs,            \* the ClientPreferences built last (PyNone before, or on error)
    raised,           \* the exception the last call raised ("" when it returned)
    catalog,          \* RecommendationEngine.catalog: the hairstyles in insertion order
    weights,          \* RecommendationEngine.weights
    minimum_score,    \* RecommendationEngine.minimum_score
    call_preferences, \* the preferences argument of the last engine call (for
                      \* recommend_hairstyles, tagged ClientPreferences or dict)
    call_hairstyle,   \* the hairstyle argument of the last _score call
    call_limit,       \* the limit argument of the last recommend call
    result            \* what the last engine call returned

vars == <<op, payload, prefs, raised, catalog, weights, minimum_score,
          call_preferences, call_hairstyle, call_limit, result>>

-----------------------------------------------------------------------------
(* Bounds of the model.                                                    *)

\* longest list given as keywords / tags in a payload
MaxItems == 2
\* most hairstyles in a catalog
MaxCatalog == 2
\* largest limit given to recommend
MaxLimit == 2

-----------------------------------------------------------------------------
(* Python values.                                                          *)

PyNone == [type |-> "NoneType"]
PyStr(s) == [type |-> "str", s |-> s]
PyList(items) == [type |-> "list", items |-> items]
PyFrozenset(elems) == [type |-> "frozenset", elems |-> elems]

\* bool(value), as `not values`, `x or y` and `if x:` apply it
Truthy(value) ==
    CASE value.type = "NoneType" -> FALSE
      [] value.type = "str" -> value.s # ""
      [] value.type = "list" -> value.items # <<>>
      [] value.type = "frozenset" -> value.elems # {}

\* the items a for loop over a collection visits
Items(values) ==
    IF values.type = "list"
    THEN {values.items[i] : i \in 1..Len(values.items)}
    ELSE values.elems

-----------------------------------------------------------------------------
(* Strings.                                                                *)

\* the characters used, in code-point order
Ascii == " -0123456789ABCDEFGHIJKLMNOPQRSTUVWXYZabcdefghijklmnopqrstuvwxyz"
UpperCase == "ABCDEFGHIJKLMNOPQRSTUVWXYZ"
LowerCase == "abcdefghijklmnopqrstuvwxyz"
Whitespace == {" "}

Char(s, i) == SubSeq(s, i, i)
Rest(s) == SubSeq(s, 2, Len(s))
Ord(c) == CHOOSE i \in 1..Len(Ascii) : Char(Ascii, i) = c

lower1(c) ==
    IF \E i \in 1..Len(UpperCase) : Char(UpperCase, i) = c
    THEN Char(LowerCase, CHOOSE i \in 1..Len(UpperCase) : Char(UpperCase, i) = c)
    ELSE c

RECURSIVE lower(_)
\* str.lower()
lower(s) == IF s = "" THEN "" ELSE lower1(Char(s, 1)) \o lower(Rest(s))

RECURSIVE lstrip(_)
lstrip(s) ==
    IF s # "" /\ Char(s, 1) \in Whitespace THEN lstrip(Rest(s)) ELSE s

RECURSIVE rstrip(_)
rstrip(s) ==
    IF s # "" /\ Char(s, Len(s)) \in Whitespace
    THEN rstrip(SubSeq(s, 1, Len(s) - 1))
    ELSE s

\* str.strip()
strip(s) == rstrip(lstrip(s))

\* str.startswith(prefix)
startswith(s, prefix) ==
    Len(s) >= Len(prefix) /\ SubSeq(s, 1, Len(prefix)) = prefix

RECURSIVE StrLess(_, _)
\* a < b on str: lexicographic by code point
StrLess(a, b) ==
    IF a = "" THEN b # ""
    ELSE IF b = "" THEN FALSE
    ELSE IF Char(a, 1) = Char(b, 1) THEN StrLess(Rest(a), Rest(b))
    ELSE Ord(Char(a, 1)) < Ord(Char(b, 1))

RECURSIVE sorted_strs(_)
\* sorted(set of str)
sorted_strs(S) ==
    IF S = {} THEN <<>>
    ELSE LET m == CHOOSE x \in S : \A y \in S : y = x \/ StrLess(x, y)
         IN <<m>> \o sorted_strs(S \ {m})

RECURSIVE join(_, _)
\* sep.join(list of str)
join(sep, strs) ==
    IF strs = <<>> THEN ""
    ELSE IF Len(strs) = 1 THEN strs[1]
    ELSE strs[1] \o sep \o join(sep, Tail(strs))

-----------------------------------------------------------------------------
(* preferences.py                                                          *)

_normalise_value(value) ==
    IF value = PyNone THEN PyNone
    ELSE LET v == lower(strip(value.s))
         IN IF v # "" THEN PyStr(v) ELSE PyNone

\* _normalise_keywords dropping the empty items before trimming them
_normalise_keywords_untrimmed_filter(values) ==
    IF ~Truthy(values) THEN {}
    ELSE {lower(strip(item)) : item \in {x \in Items(values) : x # ""}}

_normalise_keywords(values) ==
    IF ~Truthy(values) THEN {}
    ELSE {lower(strip(item)) : item \in {x \in Items(values) : strip(x) # ""}}

ScalarFields ==
    {"face_shape", "hair_length", "hair_texture", "gender", "occasion", "maintenance"}
SetFields == {"keywords", "avoid"}
Fields == ScalarFields \cup SetFields

\* the value a field has when the constructor is not given it
FieldDefault(f) == IF f \in ScalarFields THEN PyNone ELSE PyFrozenset({})

__post_init__(self) ==
    [face_shape   |-> _normalise_value(self.face_shape),
     hair_length  |-> _normalise_value(self.hair_length),
     hair_texture |-> _normalise_value(self.hair_texture),
     gender       |-> _normalise_value(self.gender),
     occasion     |-> _normalise_value(self.occasion),
     maintenance  |-> _normalise_value(self.maintenance),
     keywords     |-> _normalise_keywords(self.keywords),
     avoid        |-> _normalise_keywords(self.avoid)]

Returned(value) == [raised |-> "", value |-> value]
Raised(exception) == [raised |-> exception, value |-> PyNone]

\* ClientPreferences(**kwargs): the generated __init__, then __post_init__
ClientPreferences(kwargs) ==
    IF ~(DOMAIN kwargs \subseteq Fields)
    THEN Raised("TypeError")
    ELSE Returned(__post_init__(
            [f \in Fields |-> IF f \in DOMAIN kwargs THEN kwargs[f] ELSE FieldDefault(f)]))

\* what data.pop(key, default) returns, and the mapping it leaves
PopValue(data, key, default) == IF key \in DOMAIN data THEN data[key] ELSE default
PopRest(data, key) == [k \in DOMAIN data \ {key} |-> data[k]]
SetItem(data, key, value) ==
    [k \in DOMAIN data \cup {key} |-> IF k = key THEN value ELSE data[k]]

\* from_dict without the `tags` synonym
from_dict_no_alias(data0) ==
    LET keywords == PopValue(data0, "keywords", PyNone)
        data1 == PopRest(data0, "keywords")
        avoid == PopValue(data1, "avoid", PyNone)
        data3 == PopRest(data1, "avoid")
        data4 == IF keywords # PyNone THEN SetItem(data3, "keywords", keywords) ELSE data3
        data5 == IF avoid # PyNone THEN SetItem(data4, "avoid", avoid) ELSE data4
    IN ClientPreferences(data5)

\* from_dict popping `tags` whether or not `keywords` holds a value
from_dict_pop_both(data0) ==
    LET first == PopValue(data0, "keywords", PyNone)
        second == PopValue(data0, "tags", PyNone)
        data2 == PopRest(PopRest(data0, "keywords"), "tags")
        keywords == IF Truthy(first) THEN first ELSE second
        avoid == PopValue(data2, "avoid", PyNone)
        data3 == PopRest(data2, "avoid")
        data4 == IF keywords # PyNone THEN SetItem(data3, "keywords", keywords) ELSE data3
        data5 == IF avoid # PyNone THEN SetItem(data4, "avoid", avoid) ELSE data4
    IN ClientPreferences(data5)

from_dict(data0) ==
    LET first == PopValue(data0, "keywords", PyNone)
        data1 == PopRest(data0, "keywords")
        \* `or` evaluates its right operand only when the left one is falsy
        keywords == IF Truthy(first) THEN first ELSE PopValue(data1, "tags", PyNone)
        data2 == IF Truthy(first) THEN data1 ELSE PopRest(data1, "tags")
        avoid == PopValue(data2, "avoid", PyNone)
        data3 == PopRest(data2, "avoid")
        data4 == IF keywords # PyNone THEN SetItem(data3, "keywords", keywords) ELSE data3
        data5 == IF avoid # PyNone THEN SetItem(data4, "avoid", avoid) ELSE data4
    IN ClientPreferences(data5)

merge_keywords(self, extra) ==
    ClientPreferences(
        [face_shape   |-> self.face_shape,
         hair_length  |-> self.hair_length,
         hair_texture |-> self.hair_texture,
         gender       |-> self.gender,
         occasion     |-> self.occasion,
         maintenance  |-> self.maintenance,
         keywords     |-> PyFrozenset(self.keywords \cup _normalise_keywords(extra)),
         avoid        |-> PyFrozenset(self.avoid)])

-----------------------------------------------------------------------------
(* catalog.py                                                              *)

\* data.get(key, default)
Get(data, key, default) == IF key \in DOMAIN data THEN data[key] ELSE default

\* Hairstyle.from_mapping._as_frozenset: a bare string is a one-element list;
\* the items are lowercased and not stripped
_as_frozenset(data, key) ==
    LET values == Get(data, key, PyList(<<>>))
        listed == IF values.type = "str" THEN PyList(<<values.s>>) ELSE values
    IN {lower(item) : item \in Items(listed)}

\* Hairstyle.from_mapping: the frozen Hairstyle dataclass built from a record
from_mapping(data) ==
    [name          |-> strip(data["name"].s),
     description   |-> strip(Get(data, "description", PyStr("")).s),
     face_shapes   |-> _as_frozenset(data, "face_shapes"),
     hair_lengths  |-> _as_frozenset(data, "hair_lengths"),
     hair_textures |-> _as_frozenset(data, "hair_textures"),
     genders       |-> _as_frozenset(data, "genders"),
     occasions     |-> _as_frozenset(data, "occasions"),
     maintenance   |-> lower(Get(data, "maintenance", PyStr("medium")).s),
     tags          |-> _as_frozenset(data, "tags")]

RECURSIVE HairstyleCatalog(_)
\* HairstyleCatalog.__init__ followed by __iter__: the values of _by_name in
\* insertion order, or ValueError on a second hairstyle with the same
\* lowercased name
HairstyleCatalog(hairstyles) ==
    IF hairstyles = <<>> THEN Returned(<<>>)
    ELSE LET n == Len(hairstyles)
             before == HairstyleCatalog(SubSeq(hairstyles, 1, n - 1))
             style == hairstyles[n]
         IN IF before.raised # "" THEN before
            ELSE IF \E i \in 1..Len(before.value) :
                        lower(before.value[i].name) = lower(style.name)
            THEN Raised("ValueError")
            ELSE Returned(Append(before.value, style))

-----------------------------------------------------------------------------
(* recommendation.py                                                       *)

DEFAULT_WEIGHTS ==
    [face_shape   |-> 300,
     hair_length  |-> 250,
     hair_texture |-> 300,
     gender       |-> 100,
     occasion     |-> 150,
     maintenance  |-> 150,
     keyword      |-> 80,
     avoid        |-> -400]

_MAINTENANCE_LEVELS == [low |-> 0, medium |-> 1, high |-> 2]

abs(x) == IF x < 0 THEN -x ELSE x

\* DEFAULT_WEIGHTS | (weights or {})
MergeWeights(overrides) ==
    LET given == IF overrides = PyNone THEN <<>> ELSE overrides
    IN [k \in DOMAIN DEFAULT_WEIGHTS \cup DOMAIN given |->
            IF k \in DOMAIN given THEN given[k] ELSE DEFAULT_WEIGHTS[k]]

\* score += amount; reasons.append(reason)
Credit(acc, amount, reason) ==
    [score |-> acc.score + amount, reasons |-> Append(acc.reasons, reason)]

\* one `if preferences.<field>: if preferences.<field> in hairstyle.<set>:` block
ScoreAttribute(acc, value, members, weight, before, after) ==
    IF Truthy(value) /\ value.s \in members
    THEN Credit(acc, weight, before \o value.s \o after)
    ELSE acc

\* ScoreMaintenance giving a near miss the full weight
ScoreMaintenance_full_near_miss(acc, w, style, preferences) ==
    IF Truthy(preferences.maintenance)
       /\ preferences.maintenance.s \in DOMAIN _MAINTENANCE_LEVELS
       /\ style.maintenance \in DOMAIN _MAINTENANCE_LEVELS
    THEN LET desired == _MAINTENANCE_LEVELS[preferences.maintenance.s]
             current == _MAINTENANCE_LEVELS[style.maintenance]
             difference == abs(desired - current)
         IN IF difference = 0
            THEN Credit(acc, w.maintenance,
                        "meets " \o preferences.maintenance.s \o " maintenance goal")
            ELSE IF difference = 1
            THEN Credit(acc, w.maintenance,
                        "slightly different maintenance but still manageable")
            ELSE acc
    ELSE acc

ScoreMaintenance(acc, w, style, preferences) ==
    IF Truthy(preferences.maintenance)
       /\ preferences.maintenance.s \in DOMAIN _MAINTENANCE_LEVELS
       /\ style.maintenance \in DOMAIN _MAINTENANCE_LEVELS
    THEN LET desired == _MAINTENANCE_LEVELS[preferences.maintenance.s]
             current == _MAINTENANCE_LEVELS[style.maintenance]
             difference == abs(desired - current)
         IN IF difference = 0
            THEN Credit(acc, w.maintenance,
                        "meets " \o preferences.maintenance.s \o " maintenance goal")
            ELSE IF difference = 1
            THEN Credit(acc, w.maintenance \div 2,
                        "slightly different maintenance but still manageable")
            ELSE acc
    ELSE acc

\* ScoreKeywords adding the keyword weight once however many keywords match
ScoreKeywords_once(acc, w, style, preferences) ==
    LET overlap == preferences.keywords \cap style.tags
    IN IF preferences.keywords # {} /\ overlap # {}
       THEN Credit(acc, w.keyword,
                   "matches requested features: " \o join(", ", sorted_strs(overlap)))
       ELSE acc

ScoreKeywords(acc, w, style, preferences) ==
    LET overlap == preferences.keywords \cap style.tags
    IN IF preferences.keywords # {} /\ overlap # {}
       THEN Credit(acc, w.keyword * Cardinality(overlap),
                   "matches requested features: " \o join(", ", sorted_strs(overlap)))
       ELSE acc

ScoreAvoid(acc, w, style, preferences) ==
    LET conflict == preferences.avoid \cap style.tags
    IN IF preferences.avoid # {} /\ conflict # {}
       THEN Credit(acc, w.avoid * Cardinality(conflict),
                   "conflicts with avoid list: " \o join(", ", sorted_strs(conflict)))
       ELSE acc

\* RecommendationEngine._score
_score(w, style, preferences) ==
    LET s0 == [score |-> 0, reasons |-> <<>>]
        s1 == ScoreAttribute(s0, preferences.face_shape, style.face_shapes,
                             w.face_shape, "suits ", " face shapes")
        s2 == ScoreAttribute(s1, preferences.hair_length, style.hair_lengths,
                             w.hair_length, "matches ", " length goal")
        s3 == ScoreAttribute(s2, preferences.hair_texture, style.hair_textures,
                             w.hair_texture, "works with ", " texture")
        s4 == ScoreAttribute(s3, preferences.gender, style.genders,
                             w.gender, "popular with ", " clients")
        s5 == ScoreAttribute(s4, preferences.occasion, style.occasions,
                             w.occasion, "appropriate for ", " occasions")
        s6 == ScoreMaintenance(s5, w, style, preferences)
        s7 == ScoreKeywords(s6, w, style, preferences)
        s8 == ScoreAvoid(s7, w, style, preferences)
    IN [hairstyle |-> style, score |-> s8.score, reasons |-> s8.reasons]

\* _has_conflict looking at the first reason only
_has_conflict_first_reason(recommendation) ==
    /\ recommendation.reasons # <<>>
    /\ startswith(recommendation.reasons[1], "conflicts with")

\* RecommendationEngine._has_conflict
_has_conflict(recommendation) ==
    \E i \in 1..Len(recommendation.reasons) :
        startswith(recommendation.reasons[i], "conflicts with")

\* key(a) < key(b) for key = lambda rec: (rec.score, rec.hairstyle.name.lower())
KeyLess(a, b) ==
    \/ a.score < b.score
    \/ /\ a.score = b.score
       /\ StrLess(lower(a.hairstyle.name), lower(b.hairstyle.name))

RECURSIVE sorted_forward(_)
\* sorted(recs, key=...) without reverse=True: smallest key first
sorted_forward(recs) ==
    IF recs = <<>> THEN <<>>
    ELSE LET n == Len(recs)
             front == sorted_forward(SubSeq(recs, 1, n - 1))
             rec == recs[n]
             k == Cardinality({i \in 1..Len(front) : ~KeyLess(rec, front[i])})
         IN SubSeq(front, 1, k) \o <<rec>> \o SubSeq(front, k + 1, Len(front))

RECURSIVE sorted_reverse(_)
\* sorted(recs, key=..., reverse=True): largest key first; the sort is stable, so
\* entries with equal keys keep the order they came in
sorted_reverse(recs) ==
    IF recs = <<>> THEN <<>>
    ELSE LET n == Len(recs)
             front == sorted_reverse(SubSeq(recs, 1, n - 1))
             rec == recs[n]
             \* rec goes behind every entry whose key is not smaller than its own
             k == Cardinality({i \in 1..Len(front) : ~KeyLess(front[i], rec)})
         IN SubSeq(front, 1, k) \o <<rec>> \o SubSeq(front, k + 1, Len(front))

\* rank keeping only the scores above the minimum
rank_above_minimum(cat, w, minimum, preferences) ==
    LET results == [i \in 1..Len(cat) |-> _score(w, cat[i], preferences)]
        Keep(r) == r.score > minimum /\ ~_has_conflict(r)
        filtered == SelectSeq(results, Keep)
    IN sorted_reverse(filtered)

\* RecommendationEngine.rank
rank(cat, w, minimum, preferences) ==
    LET results == [i \in 1..Len(cat) |-> _score(w, cat[i], preferences)]
        Keep(r) == r.score >= minimum /\ ~_has_conflict(r)
        filtered == SelectSeq(results, Keep)
    IN sorted_reverse(filtered)

\* ranked[:limit] for limit > 0
Slice(seq, n) == SubSeq(seq, 1, IF n < Len(seq) THEN n ELSE Len(seq))

\* recommend slicing for limit 0 as well
recommend_slice_zero(cat, w, minimum, preferences, lim) ==
    LET ranked == rank(cat, w, minimum, preferences)
    IN IF lim >= 0 THEN Slice(ranked, lim) ELSE ranked

\* RecommendationEngine.recommend
recommend(cat, w, minimum, preferences, lim) ==
    LET ranked == rank(cat, w, minimum, preferences)
    IN IF lim > 0 THEN Slice(ranked, lim) ELSE ranked

\* recommend_hairstyles with a catalog given: a mapping goes through from_dict,
\* the engine is built with the weights given and the default minimum_score
recommend_hairstyles(given, cat, lim, overrides) ==
    LET built == IF given.type = "ClientPreferences"
                 THEN Returned(given.value)
                 ELSE from_dict(given.value)
    IN IF built.raised # "" THEN built
       ELSE Returned(recommend(cat, MergeWeights(overrides), 0, built.value, lim))

-----------------------------------------------------------------------------
(* The inputs the calls are given.                                         *)

\* a key the mapping does not hold
Absent == [type |-> "absent"]

\* the mapping holding the keys of `full` whose value is not Absent
Mapping(full) == [k \in {x \in DOMAIN full : full[x] # Absent} |-> full[k]]

RawStrings == {" ", "b", " B ", "Volume"}
RawLists == UNION {[1..n -> RawStrings] : n \in 0..MaxItems}

\* payloads of from_dict and keyword arguments of ClientPreferences, `colour`
\* being a key no field of ClientPreferences has
Payloads ==
    {Mapping([face_shape |-> fs, keywords |-> kw, tags |-> tg, avoid |-> av, colour |-> co]) :
        fs \in {Absent, PyNone, PyStr(" "), PyStr(" Heart "), PyStr("oval")},
        kw \in {Absent, PyNone, PyList(<<>>)} \cup {PyList(<<s>>) : s \in RawStrings},
        tg \in {Absent, PyNone} \cup {PyList(l) : l \in RawLists},
        av \in {Absent, PyNone, PyList(<<" ">>), PyList(<<"heat-styling", " Bold">>)},
        co \in {Absent, PyStr("red")}}

MergeExtras == {PyList(<<>>), PyList(<<" B ", " ">>)}

\* records of a catalog file
HairstyleRecords ==
    {[name |-> PyStr("Curly Shag"), description |-> PyStr(" Layered curls "),
      face_shapes |-> PyList(<<"Oval", "heart">>), hair_lengths |-> PyList(<<"medium">>),
      hair_textures |-> PyList(<<"curly">>), genders |-> PyList(<<"female">>),
      occasions |-> PyList(<<"creative">>), maintenance |-> PyStr("low"),
      tags |-> PyList(<<"wash-and-go", "curls">>)],
     [name |-> PyStr("Sleek Ponytail"),
      face_shapes |-> PyList(<<"oval">>), hair_lengths |-> PyList(<<"long", "medium">>),
      hair_textures |-> PyList(<<"curly", "wavy">>), genders |-> PyList(<<"female">>),
      occasions |-> PyList(<<"creative", "formal">>), maintenance |-> PyStr("Low"),
      tags |-> PyList(<<"Heat-Styling", "curls">>)],
     [name |-> PyStr("beach waves"),
      face_shapes |-> PyList(<<"oval">>), hair_lengths |-> PyList(<<"medium">>),
      hair_textures |-> PyList(<<"wavy">>), genders |-> PyList(<<"female", "male">>),
      occasions |-> PyList(<<"casual">>),
      tags |-> PyList(<<"wash-and-go">>)],
     [name |-> PyStr("Bob"),
      face_shapes |-> PyList(<<"round">>), hair_lengths |-> PyList(<<"short">>),
      hair_textures |-> PyStr("straight"), maintenance |-> PyStr("HIGH"),
      tags |-> PyStr("curls")],
     [name |-> PyStr(" BOB "),
      face_shapes |-> PyList(<<"oval">>), hair_textures |-> PyList(<<"curly">>),
      maintenance |-> PyStr("medium")],
     [name |-> PyStr("afro"),
      face_shapes |-> PyList(<<"oval">>), hair_lengths |-> PyList(<<"medium">>),
      hair_textures |-> PyList(<<"curly">>), genders |-> PyList(<<"male">>),
      occasions |-> PyList(<<"creative">>), maintenance |-> PyStr("weekly"),
      tags |-> PyList(<<"curls">>)]}

Hairstyles == {from_mapping(r) : r \in HairstyleRecords}

\* the catalogs HairstyleCatalog accepts
Catalogs ==
    {HairstyleCatalog(hs).value :
        hs \in {x \in UNION {[1..n -> Hairstyles] : n \in 0..MaxCatalog} :
                    HairstyleCatalog(x).raised = ""}}

\* the `weights` argument of RecommendationEngine
WeightOverrides ==
    {PyNone, [avoid |-> 0], [avoid |-> 400], [keyword |-> -80]}

\* the (weights, minimum_score) arguments of RecommendationEngine
EngineArguments ==
    ({PyNone} \X {0, 300, -500}) \cup ((WeightOverrides \ {PyNone}) \X {0})

PreferenceOf(kwargs) == ClientPreferences(kwargs).value

\* the preferences _score is given
ScorePreferences ==
    {PreferenceOf([face_shape |-> fs, hair_length |-> hl, hair_texture |-> ht,
                   gender |-> ge, occasion |-> oc, maintenance |-> ma,
                   keywords |-> PyFrozenset(kw), avoid |-> PyFrozenset(av)]) :
        fs \in {PyNone, PyStr("Oval")},
        hl \in {PyNone, PyStr("medium")},
        ht \in {PyNone, PyStr("curly")},
        ge \in {PyNone, PyStr("female")},
        oc \in {PyNone, PyStr("creative")},
        ma \in {PyNone, PyStr("low"), PyStr("medium"), PyStr("high"), PyStr("daily")},
        kw \in SUBSET {"curls", "wash-and-go"},
        av \in SUBSET {"heat-styling", "curls"}}

\* the preferences rank and recommend are given
RankPreferences ==
    {PreferenceOf([face_shape |-> fs, hair_texture |-> ht, maintenance |-> ma,
                   keywords |-> PyFrozenset(kw), avoid |-> PyFrozenset(av)]) :
        fs \in {PyNone, PyStr("Oval")},
        ht \in {PyNone, PyStr("curly")},
        ma \in {PyNone, PyStr("low")},
        kw \in {{}, {"curls"}},
        av \in {{}, {"heat-styling"}, {"curls"}}}

\* the mappings recommend_hairstyles is given
RankPayloads ==
    {[hair_texture |-> PyStr("Curly"), tags |-> PyList(<<"Curls">>),
      avoid |-> PyList(<<"heat-styling">>)],
     [keywords |-> PyList(<<"curls">>), tags |-> PyList(<<"wash-and-go">>)],
     [colour |-> PyStr("red")]}

Limits == -1..MaxLimit

-----------------------------------------------------------------------------
(* Building preferences.                                                   *)

NoEngine ==
    /\ catalog = <<>>
    /\ weights = DEFAULT_WEIGHTS
    /\ minimum_score = 0
    /\ call_preferences = PyNone
    /\ call_hairstyle = PyNone
    /\ call_limit = 0
    /\ result = <<>>

EngineUnchanged ==
    UNCHANGED <<catalog, weights, minimum_score, call_preferences, call_hairstyle,
                call_limit, result>>

InitPrefs ==
    /\ op = "start"
    /\ payload \in Payloads
    /\ prefs = PyNone
    /\ raised = ""
    /\ NoEngine

\* ClientPreferences(**payload)
Construct ==
    LET r == ClientPreferences(payload)
    IN /\ op' = "ClientPreferences"
       /\ prefs' = r.value
       /\ raised' = r.raised
       /\ UNCHANGED payload
       /\ EngineUnchanged

\* ClientPreferences.from_dict(payload)
FromDict ==
    LET r == from_dict(payload)
    IN /\ op' = "from_dict"
       /\ prefs' = r.value
       /\ raised' = r.raised
       /\ UNCHANGED payload
       /\ EngineUnchanged

\* prefs.merge_keywords(extra)
MergeKeywords ==
    /\ prefs # PyNone
    /\ \E extra \in MergeExtras :
          LET r == merge_keywords(prefs, extra)
          IN /\ op' = "merge_keywords"
             /\ prefs' = r.value
             /\ raised' = r.raised
    /\ UNCHANGED payload
    /\ EngineUnchanged

NextPrefs == Construct \/ FromDict \/ MergeKeywords

SpecPrefs == InitPrefs /\ [][NextPrefs]_vars

-----------------------------------------------------------------------------
(* Scoring one hairstyle.                                                  *)

NoPrefs ==
    /\ payload = <<>>
    /\ prefs = PyNone
    /\ raised = ""

InitScore ==
    /\ op = "start"
    /\ NoPrefs
    /\ catalog \in {c \in Catalogs : Len(c) = 1}
    /\ weights \in {MergeWeights(o) : o \in WeightOverrides}
    /\ minimum_score = 0
    /\ call_preferences = PyNone
    /\ call_hairstyle = PyNone
    /\ call_limit = 0
    /\ result = <<>>

\* engine._score(style, preferences)
Score ==
    /\ op = "start"
    /\ \E i \in 1..Len(catalog), p \in ScorePreferences :
        /\ op' = "_score"
        /\ call_hairstyle' = catalog[i]
        /\ call_preferences' = p
        /\ result' = _score(weights, catalog[i], p)
        /\ UNCHANGED <<payload, prefs, raised, catalog, weights, minimum_score, call_limit>>

\* the caller is done with the result; the engine, which no call changes, is
\* ready for the next call
Return ==
    /\ op # "start"
    /\ op' = "start"
    /\ call_preferences' = PyNone
    /\ call_hairstyle' = PyNone
    /\ call_limit' = 0
    /\ raised' = ""
    /\ result' = <<>>
    /\ UNCHANGED <<payload, prefs, catalog, weights, minimum_score>>

NextScore == Score \/ Return

SpecScore == InitScore /\ [][NextScore]_vars

-----------------------------------------------------------------------------
(* Ranking a catalog.                                                      *)

Init ==
    /\ op = "start"
    /\ NoPrefs
    /\ catalog \in Catalogs
    /\ \E a \in EngineArguments :
          /\ weights = MergeWeights(a[1])
          /\ minimum_score = a[2]
    /\ call_preferences = PyNone
    /\ call_hairstyle = PyNone
    /\ call_limit = 0
    /\ result = <<>>

\* engine.rank(preferences)
Rank ==
    /\ op = "start"
    /\ \E p \in RankPreferences :
        /\ op' = "rank"
        /\ call_preferences' = p
        /\ call_limit' = 0
        /\ raised' = ""
        /\ result' = rank(catalog, weights, minimum_score, p)
        /\ UNCHANGED <<payload, prefs, catalog, weights, minimum_score, call_hairstyle>>

\* engine.recommend(preferences, limit)
Recommend ==
    /\ op = "start"
    /\ \E p \in RankPreferences, lim \in Limits :
        /\ op' = "recommend"
        /\ call_preferences' = p
        /\ call_limit' = lim
        /\ raised' = ""
        /\ result' = recommend(catalog, weights, minimum_score, p, lim)
        /\ UNCHANGED <<payload, prefs, catalog, weights, minimum_score, call_hairstyle>>

\* recommend_hairstyles(preferences, catalog=catalog, limit=limit, weights=o) for
\* the overrides o the engine was built with
RecommendHairstyles ==
    /\ op = "start"
    /\ \E given \in {[type |-> "ClientPreferences", value |-> p] : p \in RankPreferences}
                    \cup {[type |-> "dict", value |-> d] : d \in RankPayloads},
       lim \in Limits, o \in WeightOverrides :
        /\ MergeWeights(o) = weights
        /\ LET r == recommend_hairstyles(given, catalog, lim, o)
           IN /\ op' = "recommend_hairstyles"
              /\ call_preferences' = given
              /\ call_limit' = lim
              /\ raised' = r.raised
              /\ result' = IF r.raised = "" THEN r.value ELSE <<>>
        /\ UNCHANGED <<payload, prefs, catalog, weights, minimum_score, call_hairstyle>>

Next == Rank \/ Recommend \/ RecommendHairstyles \/ Return

Spec == Init /\ [][Next]_vars

-----------------------------------------------------------------------------
(* Properties of ranking, checked under Spec.                              *)

Min(a, b) == IF a < b THEN a ELSE b

\* the ClientPreferences the last engine call worked with
PreferencesUsed ==
    IF op # "recommend_hairstyles" THEN call_preferences
    ELSE IF call_preferences.type = "dict" THEN from_dict(call_preferences.value).value
    ELSE call_preferences.value

Listed == op \in {"rank", "recommend", "recommend_hairstyles"} /\ raised = ""

\* the score the engine gives the k-th hairstyle of the catalog
ScoreOf(k) == _score(weights, catalog[k], PreferencesUsed).score

\* the k-th hairstyle of the catalog has a tag the preferences avoid
Conflicts(k) == catalog[k].tags \cap PreferencesUsed.avoid # {}

\* how often the k-th hairstyle of the catalog is in the result
Occurrences(k) ==
    Cardinality({i \in 1..Len(result) : result[i].hairstyle = catalog[k]})

\* C1: whatever the weights, no hairstyle with a tag in the avoid set of the
\* preferences is in what rank, recommend or recommend_hairstyles returns.
C1_ConflictVeto ==
    Listed =>
        \A i \in 1..Len(result) :
            result[i].hairstyle.tags \cap PreferencesUsed.avoid = {}

\* C1 witness: rank, under an avoid weight that is not negative, left out a
\* conflicting hairstyle that scores above everything it returned.
C1_Witness ==
    /\ op = "rank"
    /\ weights.avoid >= 0
    /\ result # <<>>
    /\ \E k \in 1..Len(catalog) :
          /\ Conflicts(k)
          /\ ScoreOf(k) > result[1].score
          /\ ScoreOf(k) >= minimum_score
          /\ Occurrences(k) = 0

\* C2 as claimed: entries of rank's result with equal scores are in ascending
\* case-insensitive name order.
C2_TieBreakAscending ==
    op = "rank" =>
        \A i, j \in 1..Len(result) :
            (i < j /\ result[i].score = result[j].score) =>
                ~StrLess(lower(result[j].hairstyle.name), lower(result[i].hairstyle.name))

\* C3: recommend returns the first min(limit, len) entries of rank in rank's
\* order when limit > 0, and all of rank's result when limit <= 0.
C3_LimitSemantics ==
    op = "recommend" =>
        LET ranked == rank(catalog, weights, minimum_score, call_preferences)
        IN IF call_limit > 0
           THEN /\ Len(result) = Min(call_limit, Len(ranked))
                /\ \A i \in 1..Len(result) : result[i] = ranked[i]
           ELSE result = ranked

\* C3 witness: a positive limit cut a longer ranking short.
C3_Witness ==
    /\ op = "recommend"
    /\ call_limit = 1
    /\ Len(result) = 1
    /\ Len(rank(catalog, weights, minimum_score, call_preferences)) = 2

\* C4: a hairstyle without a conflict is in rank's result exactly once when its
\* score is at least minimum_score and not at all otherwise; under the default
\* minimum of 0 nothing negative is returned, and empty preferences return
\* every hairstyle with score 0.
C4_ThresholdMembership ==
    op = "rank" =>
        /\ \A k \in 1..Len(catalog) :
              ~Conflicts(k) =>
                  Occurrences(k) = IF ScoreOf(k) >= minimum_score THEN 1 ELSE 0
        /\ minimum_score = 0 =>
              /\ \A i \in 1..Len(result) : result[i].score >= 0
              /\ call_preferences = PreferenceOf(<<>>) =>
                    /\ Len(result) = Len(catalog)
                    /\ \A i \in 1..Len(result) : result[i].score = 0

\* C4 witness: under the default minimum, rank returned a hairstyle scoring
\* exactly 0 and left out one that has no conflict and scores below 0.
C4_Witness ==
    /\ op = "rank"
    /\ minimum_score = 0
    /\ \E k \in 1..Len(catalog) : ~Conflicts(k) /\ ScoreOf(k) < 0 /\ Occurrences(k) = 0
    /\ \E i \in 1..Len(result) : result[i].score = 0

\* C9: rank's result is in non-increasing score order, and the first entry of
\* rank or recommend has the highest score among the hairstyles that pass the
\* minimum-score and avoid filters.
C9_DescendingScore ==
    op \in {"rank", "recommend"} =>
        /\ \A i, j \in 1..Len(result) : i < j => result[i].score >= result[j].score
        /\ \A k \in 1..Len(catalog) :
              (~Conflicts(k) /\ ScoreOf(k) >= minimum_score) =>
                  /\ result # <<>>
                  /\ result[1].score >= ScoreOf(k)

\* C9 witness: rank returned two hairstyles of different scores, and the
\* catalog holds them in the opposite order.
C9_Witness ==
    /\ op = "rank"
    /\ Len(result) = 2
    /\ result[1].score > result[2].score
    /\ catalog[1] = result[2].hairstyle

-----------------------------------------------------------------------------
(* Properties of scoring, checked under SpecScore.                         *)

\* the position of a maintenance value on the scale low, medium, high; -1 off it
Ordinal(value) ==
    CASE value = "low" -> 0
      [] value = "medium" -> 1
      [] value = "high" -> 2
      [] OTHER -> -1

\* the weight of a single-valued attribute when the preference names a value
\* the hairstyle lists, else nothing
AttributeWeight(field, members) ==
    IF call_preferences[field] # PyNone /\ call_preferences[field].s \in members
    THEN weights[field]
    ELSE 0

\* whether the maintenance values of the call are both on the scale and
\* `distance` apart
MaintenanceApart(distance) ==
    /\ call_preferences.maintenance # PyNone
    /\ Ordinal(call_preferences.maintenance.s) >= 0
    /\ Ordinal(call_hairstyle.maintenance) >= 0
    /\ abs(Ordinal(call_preferences.maintenance.s) - Ordinal(call_hairstyle.maintenance))
          = distance

MaintenanceWeight ==
    IF MaintenanceApart(0) THEN weights.maintenance
    ELSE IF MaintenanceApart(1) THEN weights.maintenance \div 2
    ELSE 0

SharedKeywords == call_preferences.keywords \cap call_hairstyle.tags
SharedAvoid == call_preferences.avoid \cap call_hairstyle.tags

\* what every rule but maintenance adds to the score
OtherWeights ==
    AttributeWeight("face_shape", call_hairstyle.face_shapes)
    + AttributeWeight("hair_length", call_hairstyle.hair_lengths)
    + AttributeWeight("hair_texture", call_hairstyle.hair_textures)
    + AttributeWeight("gender", call_hairstyle.genders)
    + AttributeWeight("occasion", call_hairstyle.occasions)
    + weights.keyword * Cardinality(SharedKeywords)
    + weights.avoid * Cardinality(SharedAvoid)

\* the rule a reason comes from, told by the text it starts with
RuleOf(reason) ==
    CASE startswith(reason, "suits ") -> "face_shape"
      [] startswith(reason, "matches requested features: ") -> "keyword"
      [] startswith(reason, "matches ") -> "hair_length"
      [] startswith(reason, "works with ") -> "hair_texture"
      [] startswith(reason, "popular with ") -> "gender"
      [] startswith(reason, "appropriate for ") -> "occasion"
      [] startswith(reason, "meets ") -> "maintenance"
      [] startswith(reason, "slightly different maintenance") -> "maintenance"
      [] startswith(reason, "conflicts with avoid list: ") -> "avoid"
      [] OTHER -> "none"

RulesOf(reasons) == [i \in 1..Len(reasons) |-> RuleOf(reasons[i])]

\* whether a rule adds to the score of the call
Contributes(rule) ==
    CASE rule = "face_shape" ->
            call_preferences.face_shape # PyNone
            /\ call_preferences.face_shape.s \in call_hairstyle.face_shapes
      [] rule = "hair_length" ->
            call_preferences.hair_length # PyNone
            /\ call_preferences.hair_length.s \in call_hairstyle.hair_lengths
      [] rule = "hair_texture" ->
            call_preferences.hair_texture # PyNone
            /\ call_preferences.hair_texture.s \in call_hairstyle.hair_textures
      [] rule = "gender" ->
            call_preferences.gender # PyNone
            /\ call_preferences.gender.s \in call_hairstyle.genders
      [] rule = "occasion" ->
            call_preferences.occasion # PyNone
            /\ call_preferences.occasion.s \in call_hairstyle.occasions
      [] rule = "maintenance" -> MaintenanceApart(0) \/ MaintenanceApart(1)
      [] rule = "keyword" -> SharedKeywords # {}
      [] rule = "avoid" -> SharedAvoid # {}

RuleOrder ==
    <<"face_shape", "hair_length", "hair_texture", "gender", "occasion",
      "maintenance", "keyword", "avoid">>

\* C5: with a maintenance preference, maintenance adds the full weight at
\* distance 0 on the scale low, medium, high, half of it at distance 1, and
\* nothing otherwise; a maintenance reason is given in exactly the first two
\* cases, and a value off the scale raises nothing.
C5_MaintenanceRule ==
    (op = "_score" /\ call_preferences.maintenance # PyNone) =>
        /\ raised = ""
        /\ result.score - OtherWeights = MaintenanceWeight
        /\ Cardinality({i \in 1..Len(result.reasons) :
                            RuleOf(result.reasons[i]) = "maintenance"})
              = IF MaintenanceApart(0) \/ MaintenanceApart(1) THEN 1 ELSE 0
        /\ MaintenanceApart(0) =>
              \E i \in 1..Len(result.reasons) : startswith(result.reasons[i], "meets ")
        /\ MaintenanceApart(1) =>
              \E i \in 1..Len(result.reasons) :
                  result.reasons[i] = "slightly different maintenance but still manageable"

\* C5 witness: a hairstyle of medium maintenance scored for a preference of high
\* maintenance got half the weight and the near-miss reason.
C5_Witness ==
    /\ op = "_score"
    /\ call_preferences.maintenance = PyStr("high")
    /\ call_hairstyle.maintenance = "medium"
    /\ weights = DEFAULT_WEIGHTS
    /\ result.score - OtherWeights = 75
    /\ \E i \in 1..Len(result.reasons) :
          result.reasons[i] = "slightly different maintenance but still manageable"

\* the exact-match scenario
ScenarioPreferences ==
    PreferenceOf([hair_texture |-> PyStr("curly"), maintenance |-> PyStr("low"),
                  keywords |-> PyFrozenset({"curls"})])

IsScenario ==
    /\ op = "_score"
    /\ weights = DEFAULT_WEIGHTS
    /\ call_preferences = ScenarioPreferences
    /\ call_hairstyle.hair_textures = {"curly"}
    /\ call_hairstyle.tags = {"wash-and-go", "curls"}
    /\ call_hairstyle.maintenance = "low"

\* C6: the score is the sum of the weights of the rules that apply (keyword and
\* avoid weights once per shared tag), absent fields add nothing, the reasons
\* are one per contributing rule in the order face shape, length, texture,
\* gender, occasion, maintenance, keyword, avoid; the exact-match scenario
\* scores 5.3 with the texture, maintenance and keyword reasons in that order.
C6_ScoreComposition ==
    op = "_score" =>
        /\ result.hairstyle = call_hairstyle
        /\ result.score = OtherWeights + MaintenanceWeight
        /\ RulesOf(result.reasons) = SelectSeq(RuleOrder, Contributes)
        /\ IsScenario =>
              /\ result.score = 530
              /\ result.reasons = <<"works with curly texture",
                                    "meets low maintenance goal",
                                    "matches requested features: curls">>

\* C6 witness: the scenario was scored.
C6_Witness == IsScenario /\ result.score = 530 /\ Len(result.reasons) = 3

-----------------------------------------------------------------------------
(* Properties of building preferences, checked under SpecPrefs.            *)

\* the trimmed, lowercased, non-empty strings of a list (none for None)
NormalisedContent(value) ==
    IF value = PyNone THEN {}
    ELSE {lower(strip(value.items[i])) : i \in 1..Len(value.items)} \ {""}

\* a string trimmed and lowercased, None when nothing is left
NormalisedScalar(value) ==
    IF value = PyNone THEN PyNone
    ELSE IF strip(value.s) = "" THEN PyNone
    ELSE PyStr(lower(strip(value.s)))

\* the payload holds `tags`, and no key but `tags` that is not a field
AliasPayload == "tags" \in DOMAIN payload /\ DOMAIN payload \subseteq Fields \cup {"tags"}

\* the payload holds a `keywords` value that is neither None nor empty
HasKeywords ==
    "keywords" \in DOMAIN payload /\ payload.keywords \notin {PyNone, PyList(<<>>)}

\* C7: from_dict of a mapping with `tags` and without `keywords` builds
\* preferences whose keywords are the normalised content of `tags`, whose avoid
\* set comes from `avoid` alone and whose other fields are normalised as usual.
C7_AliasMapping ==
    (op = "from_dict" /\ AliasPayload /\ "keywords" \notin DOMAIN payload) =>
        /\ raised = ""
        /\ prefs # PyNone
        /\ prefs.keywords = NormalisedContent(payload.tags)
        /\ prefs.avoid = IF "avoid" \in DOMAIN payload
                         THEN NormalisedContent(payload.avoid)
                         ELSE {}
        /\ \A f \in ScalarFields :
              prefs[f] = IF f \in DOMAIN payload THEN NormalisedScalar(payload[f]) ELSE PyNone

\* C7 witness: from_dict took the keyword volume from tags, with a face shape
\* and an avoid list beside it.
C7_Witness ==
    /\ op = "from_dict"
    /\ DOMAIN payload = {"face_shape", "tags", "avoid"}
    /\ payload.tags = PyList(<<"Volume">>)
    /\ payload.face_shape = PyStr(" Heart ")
    /\ prefs # PyNone
    /\ prefs.keywords = {"volume"}
    /\ prefs.face_shape = PyStr("heart")
    /\ prefs.avoid = {"heat-styling", "bold"}

\* the keyword arguments that hand a ClientPreferences its own fields
FieldsOf(self) ==
    [f \in Fields |-> IF f \in ScalarFields THEN self[f] ELSE PyFrozenset(self[f])]

\* C8: normalising a normalised scalar or set changes nothing, whatever the
\* input (absent, empty and whitespace-only ones included), and a
\* ClientPreferences built from the fields of one that exists is equal to it.
C8_IdempotentNormalisation ==
    /\ \A k \in DOMAIN payload :
          IF k \in {"keywords", "tags", "avoid"}
          THEN _normalise_keywords(PyFrozenset(_normalise_keywords(payload[k])))
                  = _normalise_keywords(payload[k])
          ELSE _normalise_value(_normalise_value(payload[k])) = _normalise_value(payload[k])
    /\ prefs # PyNone =>
          /\ \A f \in ScalarFields : _normalise_value(prefs[f]) = prefs[f]
          /\ \A f \in SetFields : _normalise_keywords(PyFrozenset(prefs[f])) = prefs[f]
          /\ ClientPreferences(FieldsOf(prefs)) = Returned(prefs)

\* C8 witness: preferences were built from a whitespace-only face shape and
\* from tags holding a word in capitals with spaces around it and a blank.
C8_Witness ==
    /\ op = "from_dict"
    /\ DOMAIN payload = {"face_shape", "tags"}
    /\ payload.face_shape = PyStr(" ")
    /\ payload.tags = PyList(<<" B ", " ">>)
    /\ prefs # PyNone
    /\ prefs.face_shape = PyNone
    /\ prefs.keywords = {"b"}

\* C10: from_dict takes `tags` only when `keywords` is absent, None or empty;
\* with a non-empty `keywords` beside `tags` it raises the unsupported-key
\* error and builds nothing.
C10_TagsLeftWithKeywords ==
    (op = "from_dict" /\ "tags" \in DOMAIN payload) =>
        IF HasKeywords
        THEN raised = "TypeError" /\ prefs = PyNone
        ELSE AliasPayload =>
                /\ raised = ""
                /\ prefs # PyNone
                /\ prefs.keywords = NormalisedContent(payload.tags)

\* C10 witness: a payload whose keys are all fields but `tags`, with non-empty
\* keywords, made from_dict raise.
C10_Witness ==
    /\ op = "from_dict"
    /\ DOMAIN payload = {"keywords", "tags"}
    /\ payload.keywords = PyList(<<"b">>)
    /\ payload.tags = PyList(<<"Volume">>)
    /\ raised = "TypeError"
    /\ prefs = PyNone

=============================================================================
